---- MODULE Spec2Model ----
(***************************************************************************)
(* Polymarket position notifier: the notification pipeline                  *)
(*   fetch -> acknowledge (drop) -> persist -> deliver                      *)
(* of main.py, the MongoDB store of src/db/notification_operation.py and    *)
(* the upstream adapter of polymarketNotificationFetcher.py.                *)
(*                                                                          *)
(* Spec        : main(): construction of the service, then the scheduler    *)
(*               of main.py running pipeline cycles.                        *)
(* StoreSpec   : the public operations of NotificationOperation called      *)
(*               directly, with a clock.                                    *)
(* ServiceSpec : process_notifications called directly, with or without     *)
(*               its send_to_discord argument.                              *)
(* DiscordSpec : send_discord_notifications and send_notification called    *)
(*               directly.                                                  *)
(***************************************************************************)
EXTENDS Integers, Sequences, FiniteSets, TLC

(* ------------------------------ bounds --------------------------------- *)
\* notifications the upstream ever produces (and the payload questions)
MaxNotifs == 2
\* direct calls of process_notifications in ServiceSpec
MaxCalls == 1
\* scheduler cycles (the initial run included)
MaxCycles == 2
\* documents prepared for insertion over a whole run (ObjectIds, uuids)
MaxDocs == 3
\* clock ticks of StoreSpec
MaxTime == 1
\* length of a batch handed to save_notifications in StoreSpec
MaxBatch == 2
\* MongoClients created in a run
MaxClients == 6

(* ------------------------- program constants --------------------------- *)
max_retries == 3
base_delay == 1
DuplicateKeyCode == 11000

(* ------------------------------ values --------------------------------- *)
\* a payload without the key 'notification_id'
Absent == <<"absent", 0>>
\* a notification_id supplied by the source payload
StableNids == {<<"given", 1>>}
\* faulty variant of uuid4: the generated id does not vary
uuid4_fixed(c) == <<"uuid", 0>>

\* str(uuid.uuid4()): a value never produced before
uuid4(c) == <<"uuid", c>>
\* str(x)
Str(x) == <<"str", x>>

\* the payloads with a question of Q
Payloads(Q) == [question : Q, notification_id : {Absent} \cup StableNids]

Range(s) == {s[i] : i \in 1..Len(s)}

\* every enumeration of the finite set S as a sequence without repetition
Enumerations(S) ==
    {f \in [1..Cardinality(S) -> S] :
        \A i, j \in 1..Cardinality(S) : i # j => f[i] # f[j]}

VARIABLES
    \* ---- the MongoDB collection and the store call in progress
    coll,            \* the documents of db.notifications
    hasIndex,        \* a unique index on notification_id exists
    fresh,           \* documents prepared so far (source of ObjectIds and uuids)
    now,             \* datetime.now(timezone.utc)
    dbOp,            \* the NotificationOperation method in progress, or "none"
    dbArgs,          \* the arguments of the current (or last) store call
    attempt,         \* loop variable of _retry_database_operation
    ret,             \* what the last finished store call returned
    callInserted,    \* history: ObjectIds the call in progress has written
    callRemoved,     \* history: documents the call in progress has deleted
    tries,           \* history: outcome of, and sleep after, every attempt
    \* ---- DatabaseConnectionManager
    client,          \* _client: None or the MongoClient held
    database,        \* _database: None or the client the Database belongs to
    connection_attempts, \* _connection_attempts
    openClients,     \* the MongoClients created and not closed
    clientsMade,     \* MongoClients created so far
    connCall,        \* the get_client / get_database call in progress
    connAttempt,     \* loop variable of get_client
    connRet,         \* how the last get_client / get_database call ended
    stats,           \* what the last get_connection_stats call returned
    \* ---- the upstream notification queue
    upstream,        \* notifications pending on the server
    nextId,          \* id of the next notification the server produces
    \* ---- the orchestrator (main.py)
    environ,         \* the environment variables that are set
    config_send,     \* application.send_to_discord of the configuration
    config_freq,     \* application.fetch_frequency_seconds of the configuration
    pc,              \* position of the scheduler / process_notifications
    proc,            \* "starting", "running", "failed" or "exited"
    signalled,       \* signal_handler has been invoked
    cycles,          \* cycles started
    next_run,        \* next_run of the scheduled job
    sendArg,         \* the send_to_discord argument of process_notifications
    send_to_discord, \* the flag as resolved by the cycle
    fetched,         \* what client.get_notifications() returned this cycle
    notifications,   \* what fetch_notifications() returned this cycle
    dropReqs,        \* the drop requests issued this cycle
    saveCalls,       \* calls of db_operations.save_notifications this cycle
    sent,            \* send_notification calls of this cycle, with outcome
    lastSend,        \* the last send_notification call: message, POST, result
    sdnRet,          \* what send_discord_notifications returned this cycle
    fetchOutcome,    \* history: how the fetch of this cycle ended
    prevFetchOutcome,\* history: "fail" when the previous cycle's fetch failed
    dropOutcome,     \* history: how the drop of this cycle ended
    everFetched      \* history: ids ever returned by get_notifications

connVars == <<client, database, connection_attempts, openClients,
              clientsMade, connCall, connAttempt, connRet, stats>>
storeVars == <<coll, hasIndex, fresh, now, dbOp, dbArgs, attempt, ret,
               callInserted, callRemoved, tries, connVars>>
upVars == <<upstream, nextId>>
configVars == <<environ, config_send, config_freq>>
cycleVars == <<sendArg, send_to_discord, fetched, notifications, dropReqs,
               saveCalls, sent, lastSend, sdnRet, fetchOutcome, dropOutcome>>
orchVars == <<pc, proc, signalled, cycles, next_run, configVars, cycleVars,
              prevFetchOutcome, everFetched>>
vars == <<storeVars, upVars, orchVars>>

(* ======================= NotificationOperation ========================= *)

\* _save_operation, lines 77-89: a copy of every notification with
\* timestamps and, when the key is absent, a generated notification_id.
\* insert_many then gives every document its ObjectId.
processed_notifications(batch, base, t) ==
    [i \in 1..Len(batch) |->
        [oid |-> base + i,
         notification_id |->
            IF batch[i].notification_id = Absent
            THEN uuid4(base + i)
            ELSE batch[i].notification_id,
         question |-> batch[i].question,
         created_at |-> t,
         updated_at |-> t]]

NoDuplicates(c) ==
    \A r1, r2 \in c : r1.notification_id = r2.notification_id => r1 = r2

\* collection.create_index("notification_id", unique=True) inside
\* try/except Exception: pass. The index exists afterwards when it existed
\* before, or when the request reached the server and the collection holds
\* no duplicate; every failure is swallowed.
create_index(had, reached, c) == had \/ (reached /\ NoDuplicates(c))

\* faulty variant of insert_many: a document replaces the stored ones with
\* its notification_id
RECURSIVE insert_many_replacing(_, _, _, _)
insert_many_replacing(c, docs, unique, k) ==
    IF k = 0
    THEN [coll |-> c, inserted |-> <<>>, writeErrors |-> <<>>]
    ELSE LET prev == insert_many_replacing(c, docs, unique, k - 1)
             d == docs[k]
         IN  [coll |-> {r \in prev.coll :
                          r.notification_id # d.notification_id} \cup {d},
              inserted |-> Append(prev.inserted, d.oid),
              writeErrors |-> prev.writeErrors]

\* collection.insert_many(docs, ordered=False) applied to the first k
\* documents: a document whose notification_id is already indexed is
\* rejected with a write error (code 11000) and the others are written.
RECURSIVE insert_many(_, _, _, _)
insert_many(c, docs, unique, k) ==
    IF k = 0
    THEN [coll |-> c, inserted |-> <<>>, writeErrors |-> <<>>]
    ELSE LET prev == insert_many(c, docs, unique, k - 1)
             d == docs[k]
             dup == unique /\ \E r \in prev.coll :
                                 r.notification_id = d.notification_id
         IN  IF dup
             THEN [prev EXCEPT !.writeErrors =
                       Append(@, [index |-> k, code |-> DuplicateKeyCode])]
             ELSE [coll |-> prev.coll \cup {d},
                   inserted |-> Append(prev.inserted, d.oid),
                   writeErrors |-> prev.writeErrors]

\* BulkWriteError.details as pymongo builds it: it has no key 'insertedIds'
BulkWriteErrorDetails(res) ==
    [writeErrors |-> res.writeErrors,
     writeConcernErrors |-> <<>>,
     nInserted |-> Len(res.inserted),
     nUpserted |-> 0, nMatched |-> 0, nModified |-> 0, nRemoved |-> 0,
     upserted |-> <<>>]

\* _save_operation, lines 102-131: what a completed insert_many returns
save_operation_return(docs, res) ==
    IF res.writeErrors = <<>>
    THEN [i \in 1..Len(docs) |-> Str(docs[i].oid)]
    ELSE LET details == BulkWriteErrorDetails(res)
         IN  IF "insertedIds" \in DOMAIN details
             THEN [i \in 1..Len(details.insertedIds) |->
                      Str(details.insertedIds[i])]
             ELSE <<>>

\* faulty variant of retry_database_operation: every error is retried
retry_database_operation_any_error(att, out) ==
    IF out = "complete" THEN "return"
    ELSE IF att < max_retries - 1 THEN "retry"
    ELSE "raise"

\* _retry_database_operation: what the loop does with the outcome of one
\* attempt ("complete", "transient": ConnectionFailure,
\* ServerSelectionTimeoutError or AutoReconnect, "other": any other error)
retry_database_operation(att, out) ==
    IF out = "complete" THEN "return"
    ELSE IF out = "transient" /\ att < max_retries - 1 THEN "retry"
    ELSE "raise"

\* _retry_database_operation, line 51: the sleep before the next attempt
retry_delay(att) == base_delay * (2 ^ att)

\* faulty variant of failure_return: the error reaches the caller
failure_reraised(op) ==
    [op |-> op, val |-> IF op = "delete" THEN 0 ELSE <<>>, raised |-> TRUE]

\* the except Exception clause of every public method: [] (0 for delete)
failure_return(op) ==
    [op |-> op, val |-> IF op = "delete" THEN 0 ELSE <<>>, raised |-> FALSE]

\* the value of ret after an attempt that ends the call
Returned(op, out, val) ==
    (IF out = "complete"
     THEN [op |-> op, val |-> val, raised |-> FALSE]
     ELSE failure_return(op))
    @@ [how |-> out, attempts |-> attempt + 1]

\* what one attempt does to the call in progress
EndAttempt(op, out, val) ==
    IF retry_database_operation(attempt, out) = "retry"
    THEN /\ attempt' = attempt + 1
         /\ tries' = Append(tries, [out |-> out,
                                    slept |-> retry_delay(attempt)])
         /\ UNCHANGED <<dbOp, ret>>
    ELSE /\ attempt' = 0
         /\ tries' = Append(tries, [out |-> out, slept |-> 0])
         /\ dbOp' = "none"
         /\ ret' = Returned(op, out, val)

NoReturn == [op |-> "none", val |-> <<>>, raised |-> FALSE,
             how |-> "none", attempts |-> 0]

BeginCall(op, args) ==
    /\ dbOp' = op
    /\ dbArgs' = args
    /\ attempt' = 0
    /\ ret' = NoReturn
    /\ callInserted' = {}
    /\ callRemoved' = {}
    /\ tries' = <<>>

\* faulty variant of caller_item: the fields are added to the caller's
\* own notification
caller_item_in_place(notification, doc) ==
    [notification EXCEPT !.notification_id = doc.notification_id]

\* _save_operation, line 80: the fields are added to notification.copy(),
\* so the caller's notification is what it was
caller_item(notification, doc) == notification

\* one attempt of _save_operation under _retry_database_operation
SaveAttempt ==
    /\ dbOp = "save"
    /\ fresh + Len(dbArgs) <= MaxDocs
    /\ \E reached \in BOOLEAN, out \in {"complete", "transient", "other"},
          k \in 0..Len(dbArgs) :
        LET docs == processed_notifications(dbArgs, fresh, now)
            unique == create_index(hasIndex, reached, coll)
            n == IF out = "complete" THEN Len(docs)
                 ELSE IF out = "transient" THEN k ELSE 0
            res == insert_many(coll, docs, unique, n)
        IN  /\ out # "transient" => k = 0
            /\ hasIndex' = unique
            /\ coll' = res.coll
            /\ fresh' = fresh + Len(docs)
            /\ callInserted' = callInserted \cup Range(res.inserted)
            /\ dbArgs' = [i \in 1..Len(dbArgs) |->
                              caller_item(dbArgs[i], docs[i])]
            /\ EndAttempt("save", out, save_operation_return(docs, res))
    /\ UNCHANGED <<now, callRemoved, connVars>>

\* save_notifications, lines 72-74: an empty batch returns [] at once
SaveEmpty ==
    /\ dbOp = "none"
    /\ ret' = [op |-> "save", val |-> <<>>, raised |-> FALSE,
               how |-> "complete", attempts |-> 0]
    /\ dbArgs' = <<>>
    /\ callInserted' = {}
    /\ callRemoved' = {}
    /\ tries' = <<>>
    /\ UNCHANGED <<coll, hasIndex, fresh, now, dbOp, attempt, connVars>>

\* find(filter).sort("created_at", -1): every order the sort may give
find_sorted(S) ==
    {s \in Enumerations(S) :
        \A i \in 1..(Cardinality(S) - 1) :
            s[i].created_at >= s[i + 1].created_at}

\* cursor.skip(skip) when skip > 0, cursor.limit(limit) when limit is truthy
skip_limit(s, skip, limit) ==
    LET rest == IF skip > 0 THEN SubSeq(s, skip + 1, Len(s)) ELSE s
    IN  IF limit # 0 /\ limit < Len(rest) THEN SubSeq(rest, 1, limit) ELSE rest

\* notification['_id'] = str(notification['_id'])
stringify_ids(s) == [i \in 1..Len(s) |-> [s[i] EXCEPT !.oid = Str(@)]]

\* faulty variant of in_date_range: the bounds are exclusive
in_date_range_exclusive(r, start_date, end_date) ==
    r.created_at > start_date /\ r.created_at < end_date

\* the filter of get_notifications_by_date_range
in_date_range(r, start_date, end_date) ==
    r.created_at >= start_date /\ r.created_at <= end_date

\* the filter of delete_old_notifications
older_than(r, t, days_old) == r.created_at < t - days_old

\* one attempt of _get_operation
GetAllAttempt ==
    /\ dbOp = "get_all"
    /\ \E out \in {"complete", "transient", "other"}, s \in find_sorted(coll) :
        EndAttempt("get_all", out,
                   stringify_ids(skip_limit(s, dbArgs.skip, dbArgs.limit)))
    /\ UNCHANGED <<coll, hasIndex, fresh, now, dbArgs, callInserted,
                   callRemoved, connVars>>

\* one attempt of _get_by_date_operation
GetByDateAttempt ==
    /\ dbOp = "get_by_date"
    /\ \E out \in {"complete", "transient", "other"},
          s \in find_sorted({r \in coll :
                   in_date_range(r, dbArgs.start_date, dbArgs.end_date)}) :
        EndAttempt("get_by_date", out, stringify_ids(s))
    /\ UNCHANGED <<coll, hasIndex, fresh, now, dbArgs, callInserted,
                   callRemoved, connVars>>

\* one attempt of _delete_operation; a transient failure may surface after
\* the server has applied the delete_many
DeleteAttempt ==
    /\ dbOp = "delete"
    /\ \E out \in {"complete", "transient", "other"}, applied \in BOOLEAN :
        LET gone == {r \in coll : older_than(r, now, dbArgs.days_old)}
        IN  /\ out = "complete" => applied
            /\ out = "other" => ~applied
            /\ coll' = IF applied THEN coll \ gone ELSE coll
            /\ callRemoved' = IF applied THEN callRemoved \cup gone
                               ELSE callRemoved
            /\ EndAttempt("delete", out, Cardinality(gone))
    /\ UNCHANGED <<hasIndex, fresh, now, dbArgs, callInserted, connVars>>

(* ---------------- StoreSpec: the store called directly ----------------- *)

Batches == UNION {[1..n -> Payloads({1})] : n \in 1..MaxBatch}

CallSave ==
    /\ dbOp = "none"
    /\ \E batch \in Batches : BeginCall("save", batch)
    /\ UNCHANGED <<coll, hasIndex, fresh, now, connVars>>

CallGetAll ==
    /\ dbOp = "none"
    /\ \E limit \in 0..1, skip \in 0..1 :
        BeginCall("get_all", [limit |-> limit, skip |-> skip])
    /\ UNCHANGED <<coll, hasIndex, fresh, now, connVars>>

CallGetByDate ==
    /\ dbOp = "none"
    /\ \E start_date \in 0..MaxTime, end_date \in 0..MaxTime :
        BeginCall("get_by_date",
                  [start_date |-> start_date, end_date |-> end_date])
    /\ UNCHANGED <<coll, hasIndex, fresh, now, connVars>>

CallDelete ==
    /\ dbOp = "none"
    /\ \E days_old \in 0..1 : BeginCall("delete", [days_old |-> days_old])
    /\ UNCHANGED <<coll, hasIndex, fresh, now, connVars>>

ClockTick ==
    /\ now < MaxTime
    /\ now' = now + 1
    /\ UNCHANGED <<coll, hasIndex, fresh, dbOp, dbArgs, attempt, ret,
                   callInserted, callRemoved, tries, connVars>>

(* ====================== DatabaseConnectionManager ====================== *)

max_connection_attempts == 5
\* _client = None: clients are numbered from 1 in the order of creation
NoClient == 0
\* _database = None: a Database is identified by the client it belongs to
NoDatabase == 0

NoCall == [fn |-> "none", force_reconnect |-> FALSE]
NoStats == [status |-> "none", raised |-> FALSE, held |-> FALSE]

\* _close_client: the client held, if any, is closed and forgotten
close_client ==
    /\ openClients' = openClients \ {client}
    /\ client' = NoClient
    /\ database' = NoDatabase

\* the end of a call whose get_client part has returned client c:
\* get_database, lines 102-111, stores the Database and pings it
GetClientReturned(fn, c, dbping) ==
    /\ connCall' = NoCall
    /\ connAttempt' = 0
    /\ IF fn = "get_database"
       THEN /\ database' = c
            /\ connRet' = IF dbping = "ok" THEN "returned" ELSE "raised"
       ELSE /\ database' = database
            /\ connRet' = "returned"

\* the end of a call by an exception that leaves get_client
GetClientRaised ==
    /\ connCall' = NoCall
    /\ connAttempt' = 0
    /\ connRet' = "raised"

\* get_client(force_reconnect) or get_database(force_reconnect), up to the
\* loop of line 59: a client that is held is pinged unless force_reconnect
CallGetClient ==
    /\ connCall.fn = "none"
    /\ \E fn \in {"get_client", "get_database"}, force_reconnect \in BOOLEAN,
          ping \in {"ok", "transient", "other"}, dbping \in {"ok", "raise"} :
        IF client # NoClient /\ ~force_reconnect
        THEN IF ping = "ok"
             THEN /\ connection_attempts' = 0
                  /\ GetClientReturned(fn, client, dbping)
                  /\ UNCHANGED <<client, openClients>>
             ELSE IF ping = "transient"
             THEN /\ dbping = "ok"
                  /\ close_client
                  /\ connCall' = [fn |-> fn,
                                  force_reconnect |-> force_reconnect]
                  /\ connAttempt' = 0
                  /\ connRet' = "none"
                  /\ UNCHANGED connection_attempts
             ELSE /\ dbping = "ok"
                  /\ GetClientRaised
                  /\ UNCHANGED <<client, database, openClients,
                                 connection_attempts>>
        ELSE /\ ping = "ok" /\ dbping = "ok"
             /\ connCall' = [fn |-> fn, force_reconnect |-> force_reconnect]
             /\ connAttempt' = 0
             /\ connRet' = "none"
             /\ UNCHANGED <<client, database, openClients,
                            connection_attempts>>
    /\ UNCHANGED <<clientsMade, stats>>

\* get_client, lines 59-90: one iteration of the connection loop. "early"
\* is an error raised before the new client is assigned (configuration,
\* MongoClient()), "other" an unexpected error of the ping.
ConnectAttempt ==
    /\ connCall.fn # "none"
    /\ clientsMade < MaxClients
    /\ \E out \in {"ok", "transient", "other", "early"},
          dbping \in {"ok", "raise"} :
        LET c == clientsMade + 1
        IN  /\ out # "ok" => dbping = "ok"
            /\ IF out = "early"
               THEN UNCHANGED <<client, openClients, clientsMade>>
               ELSE /\ client' = c
                    /\ openClients' = openClients \cup {c}
                    /\ clientsMade' = c
            /\ IF out = "ok"
               THEN /\ connection_attempts' = 0
                    /\ GetClientReturned(connCall.fn, c, dbping)
               ELSE IF out = "transient"
               THEN /\ connection_attempts' = connection_attempts + 1
                    /\ database' = database
                    /\ IF connAttempt < max_connection_attempts - 1
                       THEN /\ connAttempt' = connAttempt + 1
                            /\ UNCHANGED <<connCall, connRet>>
                       ELSE GetClientRaised
               ELSE /\ GetClientRaised
                    /\ UNCHANGED <<database, connection_attempts>>
    /\ UNCHANGED stats

\* close_connection
CloseConnection ==
    /\ connCall.fn = "none"
    /\ close_client
    /\ UNCHANGED <<connection_attempts, clientsMade, connCall, connAttempt,
                   connRet, stats>>

\* faulty variant of get_connection_stats: an error of the serverStatus
\* command reaches the caller
get_connection_stats_unguarded(c, out) ==
    IF c = NoClient THEN [status |-> "disconnected", raised |-> FALSE]
    ELSE IF out = "ok" THEN [status |-> "connected", raised |-> FALSE]
    ELSE [status |-> "none", raised |-> TRUE]

\* get_connection_stats: the status of the dictionary returned, out being
\* the outcome of the serverStatus command
get_connection_stats(c, out) ==
    IF c = NoClient THEN [status |-> "disconnected", raised |-> FALSE]
    ELSE IF out = "ok" THEN [status |-> "connected", raised |-> FALSE]
    ELSE [status |-> "error", raised |-> FALSE]

\* DatabaseConnectionManager.get_connection_stats()
GetConnectionStats ==
    /\ connCall.fn = "none"
    /\ \E out \in {"ok", "raise"} :
        stats' = get_connection_stats(client, out)
                     @@ [held |-> client # NoClient]
    /\ UNCHANGED <<client, database, connection_attempts, openClients,
                   clientsMade, connCall, connAttempt, connRet>>

(* ============================ ConfigManager ============================ *)

\* os.getenv(name) of a variable that is not set
None == "None"

\* the environment variables the configuration names, and the values each
\* may have
EnvValues ==
    [PRIVATE_KEY |-> {None, "", "0xkey"},
     DISCORD_WEBHOOK_URL |-> {None, "", "https://hook"},
     MONGO_URL |-> {None, "mongodb://db"}]

Environs ==
    {e \in [DOMAIN EnvValues -> UNION {EnvValues[v] : v \in DOMAIN EnvValues}] :
        \A v \in DOMAIN EnvValues : e[v] \in EnvValues[v]}

\* every variable is set to a non-empty value
FullEnviron ==
    [PRIVATE_KEY |-> "0xkey", DISCORD_WEBHOOK_URL |-> "https://hook",
     MONGO_URL |-> "mongodb://db"]

\* the leaves of the merged configuration file that name an environment
\* variable: ${VAR:-default} for the credentials, ${VAR} for the store url
config_yaml ==
    [polymarket_private_key |->
        [var |-> "PRIVATE_KEY", has_default |-> TRUE, default |-> ""],
     discord_webhook_url |->
        [var |-> "DISCORD_WEBHOOK_URL", has_default |-> TRUE, default |-> ""],
     database_mongo_url |->
        [var |-> "MONGO_URL", has_default |-> FALSE, default |-> ""]]

\* faulty variant of substitute_env_var: an unset variable without default
\* becomes the empty string
substitute_env_var_lenient(leaf, env) ==
    LET result == IF env[leaf.var] = None THEN leaf.default ELSE env[leaf.var]
    IN  IF result \in {"true", "false"}
        THEN <<"bool", result = "true">>
        ELSE <<"str", result>>

\* _substitute_env_var: the value of a leaf, typed, or <<"ValueError">>
substitute_env_var(leaf, env) ==
    LET result == IF env[leaf.var] = None /\ leaf.has_default
                  THEN leaf.default
                  ELSE env[leaf.var]
    IN  IF result = None THEN <<"ValueError">>
        ELSE IF result \in {"true", "false"}
             THEN <<"bool", result = "true">>
             ELSE <<"str", result>>

\* _load_config, line 49: every leaf is substituted; one failure fails the
\* load
load_config(env) ==
    LET loaded == [k \in DOMAIN config_yaml |->
                      substitute_env_var(config_yaml[k], env)]
    IN  IF \E k \in DOMAIN loaded : loaded[k] = <<"ValueError">>
        THEN <<"ValueError">>
        ELSE loaded

\* "not value" of Python for a substituted leaf
falsy(v) == v \in {<<"str", "">>, <<"bool", FALSE>>}

\* application.send_to_discord and application.fetch_frequency_seconds of
\* the configuration file: a missing key, or a literal
Configs ==
    {[send_to_discord |-> "missing", fetch_frequency_seconds |-> <<>>],
     [send_to_discord |-> "true", fetch_frequency_seconds |-> <<30>>],
     [send_to_discord |-> "false", fetch_frequency_seconds |-> <<30>>]}

DefaultConfig ==
    [send_to_discord |-> "missing", fetch_frequency_seconds |-> <<>>]

\* the last send_notification call, before any call
NoSend == [message |-> <<>>, posted |-> FALSE,
           resp |-> [kind |-> "none", code |-> 0], result |-> "none"]

(* ------------------------------- Init ---------------------------------- *)

\* the state with configuration file cfg and environment env, before
\* (constructed = FALSE) or after PolymarketNotificationService()
InitWith(cfg, env, constructed) ==
    /\ coll = {}
    /\ hasIndex = FALSE
    /\ fresh = 0
    /\ now = 0
    /\ dbOp = "none"
    /\ dbArgs = <<>>
    /\ attempt = 0
    /\ ret = NoReturn
    /\ callInserted = {}
    /\ callRemoved = {}
    /\ tries = <<>>
    /\ client = NoClient
    /\ database = NoDatabase
    /\ connection_attempts = 0
    /\ openClients = {}
    /\ clientsMade = 0
    /\ connCall = NoCall
    /\ connAttempt = 0
    /\ connRet = "none"
    /\ stats = NoStats
    /\ upstream = {}
    /\ nextId = 1
    /\ environ = env
    /\ config_send = cfg.send_to_discord
    /\ config_freq = cfg.fetch_frequency_seconds
    /\ pc = IF constructed THEN "boot" ELSE "new"
    /\ proc = IF constructed THEN "running" ELSE "starting"
    /\ signalled = FALSE
    /\ cycles = 0
    /\ next_run = 0
    /\ sendArg = "none"
    /\ send_to_discord = FALSE
    /\ fetched = <<>>
    /\ notifications = <<>>
    /\ dropReqs = <<>>
    /\ saveCalls = 0
    /\ sent = <<>>
    /\ lastSend = NoSend
    /\ sdnRet = "none"
    /\ fetchOutcome = "none"
    /\ prevFetchOutcome = "none"
    /\ dropOutcome = "none"
    /\ everFetched = {}

StoreInit == InitWith(DefaultConfig, FullEnviron, TRUE)

StoreNext ==
    \/ (CallSave /\ UNCHANGED <<upVars, orchVars>>)
    \/ (SaveEmpty /\ UNCHANGED <<upVars, orchVars>>)
    \/ (CallGetAll /\ UNCHANGED <<upVars, orchVars>>)
    \/ (CallGetByDate /\ UNCHANGED <<upVars, orchVars>>)
    \/ (CallDelete /\ UNCHANGED <<upVars, orchVars>>)
    \/ (ClockTick /\ UNCHANGED <<upVars, orchVars>>)
    \/ (SaveAttempt /\ UNCHANGED <<upVars, orchVars>>)
    \/ (GetAllAttempt /\ UNCHANGED <<upVars, orchVars>>)
    \/ (GetByDateAttempt /\ UNCHANGED <<upVars, orchVars>>)
    \/ (DeleteAttempt /\ UNCHANGED <<upVars, orchVars>>)

StoreSpec == StoreInit /\ [][StoreNext]_vars

(* ------- ConnSpec: the connection manager called directly -------------- *)

ConnInit == InitWith(DefaultConfig, FullEnviron, TRUE)

ConnNext ==
    \/ (CallGetClient /\ UNCHANGED <<coll, hasIndex, fresh, now, dbOp, dbArgs,
                          attempt, ret, callInserted, callRemoved, tries,
                          upVars, orchVars>>)
    \/ (ConnectAttempt /\ UNCHANGED <<coll, hasIndex, fresh, now, dbOp, dbArgs,
                          attempt, ret, callInserted, callRemoved, tries,
                          upVars, orchVars>>)
    \/ (CloseConnection /\ UNCHANGED <<coll, hasIndex, fresh, now, dbOp,
                          dbArgs, attempt, ret, callInserted, callRemoved,
                          tries, upVars, orchVars>>)
    \/ (GetConnectionStats /\ UNCHANGED <<coll, hasIndex, fresh, now, dbOp,
                          dbArgs, attempt, ret, callInserted, callRemoved,
                          tries, upVars, orchVars>>)

ConnSpec == ConnInit /\ [][ConnNext]_vars

(* ==================== PolymarketNotificationFetcher ==================== *)

\* faulty variant of notification_ids: the first fetched notification is
\* left out of the request
notification_ids_skip_first(raw) ==
    [i \in 1..(Len(raw) - 1) |-> Str(raw[i + 1].id)]

\* fetch_and_drop_notifications, line 55
notification_ids(raw) == [i \in 1..Len(raw) |-> Str(raw[i].id)]

\* fetch_and_drop_notifications, line 57
payloads(raw) == [i \in 1..Len(raw) |-> raw[i].payload]

\* the server side of drop_notifications
dropped(queue, ids) == {n \in queue : Str(n.id) \notin Range(ids)}

\* the list get_notifications returns: the pending notifications, oldest
\* (lowest id) first
server_order(queue) ==
    CHOOSE o \in Enumerations(queue) :
        \A i \in 1..(Len(o) - 1) : o[i].id < o[i + 1].id

\* the upstream produces a notification (an order fill)
Arrive ==
    /\ nextId <= MaxNotifs
    /\ \E nid \in {Absent} \cup StableNids :
        upstream' = upstream \cup
            {[id |-> nextId,
              payload |-> [question |-> nextId, notification_id |-> nid]]}
    /\ nextId' = nextId + 1
    /\ UNCHANGED <<storeVars, orchVars>>

(* ============================ DiscordNotifier ========================== *)

\* what session.post can end with: a final status code, requests.Timeout,
\* another requests.RequestException, or an error that is neither
Responses ==
    {[kind |-> "status", code |-> c] : c \in {200, 204, 429}}
    \cup {[kind |-> k, code |-> 0] :
            k \in {"Timeout", "RequestException", "Exception"}}

\* faulty variant of send_notification: every final status is accepted
send_notification_any_status(message, resp) ==
    IF message = <<>> THEN "False"
    ELSE IF resp.kind = "status" THEN "True"
         ELSE IF resp.kind \in {"Timeout", "RequestException"} THEN "False"
         ELSE "raise"

\* faulty variant of send_notification: only requests.Timeout is caught
send_notification_timeout_only(message, resp) ==
    IF message = <<>> THEN "False"
    ELSE IF resp.kind = "status"
         THEN (IF resp.code \in {200, 204} THEN "True" ELSE "False")
         ELSE IF resp.kind = "Timeout" THEN "False"
         ELSE "raise"

\* send_notification: "True", "False", or "raise" when the error escapes
send_notification(message, resp) ==
    IF message = <<>> THEN "False"
    ELSE IF resp.kind = "status"
         THEN (IF resp.code \in {200, 204} THEN "True" ELSE "False")
         ELSE IF resp.kind \in {"Timeout", "RequestException"} THEN "False"
         ELSE "raise"

(* ===================== PolymarketNotificationService =================== *)

\* faulty variant of resolve_send_to_discord: the argument is ignored
resolve_send_to_discord_config_only(arg, cfg) ==
    IF cfg = "missing" THEN TRUE ELSE cfg = "true"

\* process_notifications, lines 136-137
resolve_send_to_discord(arg, cfg) ==
    IF arg # "none" THEN arg = "true"
    ELSE IF cfg = "missing" THEN TRUE ELSE cfg = "true"

\* send_discord_notifications, line 113: the message of a notification
render(noti) == <<noti.question, "Side:", "Matched Size:", "At Price:">>

\* faulty variant of fetch_notifications_except: the error of the fetcher
\* escapes and ends the scheduler
fetch_notifications_reraises == [pc |-> "crashed", notifications |-> <<>>]

\* fetch_notifications, lines 72-74: an error of the fetcher is logged,
\* [] is returned and process_notifications ends the cycle
fetch_notifications_except == [pc |-> "idle", notifications |-> <<>>]

\* _initialize_noti_fetcher, line 45: "if not private_key"
private_key_missing(private_key) == falsy(private_key)

\* DiscordNotifier.__init__, line 54: "if not self.webhook_url"
webhook_url_missing(webhook_url) == falsy(webhook_url)

\* PolymarketNotificationService(): "ok", or the error that leaves __init__.
\* The first config.get loads the whole configuration; connected is the
\* answer of client.get_ok() in PolymarketClient.__init__.
construct(env, connected) ==
    LET config == load_config(env)
    IN  IF config = <<"ValueError">> THEN "ValueError"
        ELSE IF private_key_missing(config.polymarket_private_key)
             THEN "ValueError"
        ELSE IF ~connected THEN "Exception"
        ELSE IF webhook_url_missing(config.discord_webhook_url)
             THEN "RuntimeError"
        ELSE "ok"

\* main(), lines 197-201: the service is constructed; an error of the
\* constructor is printed and the process ends without run_scheduler
Construct ==
    /\ proc = "starting"
    /\ pc = "new"
    /\ \E connected \in BOOLEAN :
        IF construct(environ, connected) = "ok"
        THEN proc' = "running" /\ pc' = "boot"
        ELSE proc' = "failed" /\ pc' = "new"
    /\ UNCHANGED <<signalled, cycles, next_run, configVars, cycleVars,
                   everFetched, prevFetchOutcome, storeVars, upVars>>

\* run_scheduler, line 159: config.get(key, 60)
default_fetch_frequency == 60
fetch_frequency ==
    IF config_freq = <<>> THEN default_fetch_frequency ELSE config_freq[1]

\* faulty variant of should_run: the job is always due
should_run_always(t, nr) == TRUE

\* Job.should_run of the schedule library: the job is due
should_run(t, nr) == t >= nr

StartCycle(a) ==
    /\ pc' = "fetch"
    /\ cycles' = cycles + 1
    /\ sendArg' = a
    /\ send_to_discord' = resolve_send_to_discord(a, config_send)
    /\ fetched' = <<>>
    /\ notifications' = <<>>
    /\ dropReqs' = <<>>
    /\ saveCalls' = 0
    /\ sent' = <<>>
    /\ lastSend' = NoSend
    /\ sdnRet' = "none"
    /\ fetchOutcome' = "none"
    /\ prevFetchOutcome' = IF fetchOutcome = "fail" THEN "fail" ELSE "none"
    /\ dropOutcome' = "none"
    /\ UNCHANGED <<proc, signalled, configVars, everFetched, storeVars,
                   upVars>>

\* run_scheduler, lines 159-177: the job is scheduled one interval ahead,
\* then the initial processing runs at once
InitialRun ==
    /\ proc = "running"
    /\ pc = "boot"
    /\ next_run' = now + fetch_frequency
    /\ StartCycle("none")

\* run_scheduler, lines 180-182: run_pending finds the job due and runs
\* it; the job is scheduled again one interval ahead
RunPending ==
    /\ proc = "running"
    /\ pc = "idle"
    /\ cycles < MaxCycles
    /\ should_run(now, next_run)
    /\ next_run' = now + fetch_frequency
    /\ StartCycle("none")

\* run_scheduler, lines 180-182: the loop sleeps, second by second, until
\* the job is due
Sleep ==
    /\ proc = "running"
    /\ pc = "idle"
    /\ cycles < MaxCycles
    /\ ~should_run(now, next_run)
    /\ now' = next_run
    /\ UNCHANGED <<coll, hasIndex, fresh, dbOp, dbArgs, attempt, ret,
                   callInserted, callRemoved, tries, connVars, upVars,
                   orchVars>>

\* _fetch_new_notification: client.get_notifications() raises
FetchFails ==
    /\ proc = "running"
    /\ pc = "fetch"
    /\ fetchOutcome' = "fail"
    /\ pc' = fetch_notifications_except.pc
    /\ notifications' = fetch_notifications_except.notifications
    /\ UNCHANGED <<proc, signalled, cycles, next_run, configVars, sendArg,
                   send_to_discord, fetched, dropReqs, saveCalls, sent,
                   lastSend, sdnRet, dropOutcome, everFetched,
                   prevFetchOutcome, storeVars, upVars>>

\* faulty variant of has_notifications: the drop is attempted for an empty
\* fetch too
has_notifications_always(raw) == TRUE

\* fetch_and_drop_notifications, line 54: if notifications
has_notifications(raw) == raw # <<>>

\* _drop_notifications, lines 43-44: an empty id list raises ValueError
\* before any request is made
drop_refused(ids) == ids = <<>>

\* _fetch_new_notification: client.get_notifications() returns the queue
Fetch ==
    /\ proc = "running"
    /\ pc = "fetch"
    /\ fetched' = server_order(upstream)
    /\ everFetched' = everFetched \cup {n.id : n \in upstream}
    /\ fetchOutcome' = IF upstream = {} THEN "empty" ELSE "ok"
    /\ pc' = IF has_notifications(server_order(upstream)) THEN "drop"
             ELSE "idle"
    /\ UNCHANGED <<proc, signalled, cycles, next_run, configVars, sendArg,
                   send_to_discord, notifications, dropReqs, saveCalls, sent,
                   lastSend, sdnRet, dropOutcome, prevFetchOutcome, storeVars,
                   upVars>>

\* _drop_notifications, then the rest of fetch_and_drop_notifications and
\* fetch_notifications, up to the call of db_operations.save_notifications
Drop ==
    /\ proc = "running"
    /\ pc = "drop"
    /\ \E resp \in {"OK", "notOK", "raise"}, applied \in BOOLEAN :
        LET ids == notification_ids(fetched)
        IN  /\ resp = "OK" => applied
            /\ resp = "notOK" => ~applied
            /\ drop_refused(ids) => (resp = "raise" /\ ~applied)
            /\ dropReqs' = IF drop_refused(ids) THEN dropReqs
                            ELSE Append(dropReqs, ids)
            /\ upstream' = IF applied THEN dropped(upstream, ids) ELSE upstream
            /\ dropOutcome' = resp
            /\ IF resp = "raise"
               THEN /\ pc' = fetch_notifications_except.pc
                    /\ notifications' = fetch_notifications_except.notifications
                    /\ UNCHANGED <<saveCalls, dbOp, dbArgs, attempt, ret,
                                   callInserted, callRemoved, tries>>
               ELSE /\ pc' = "save"
                    /\ notifications' = payloads(fetched)
                    /\ saveCalls' = saveCalls + 1
                    /\ BeginCall("save", payloads(fetched))
    /\ UNCHANGED <<proc, signalled, cycles, next_run, configVars, sendArg,
                   send_to_discord, fetched, sent, lastSend, sdnRet,
                   fetchOutcome, everFetched, prevFetchOutcome, coll,
                   hasIndex, fresh, now, connVars, nextId>>

\* faulty variant of save_notifications_returned: the orchestrator goes on
\* while the store call is in progress
save_notifications_not_awaited == TRUE

\* process_notifications, line 144: the call of save_notifications is
\* synchronous, the next statement runs once it has returned
save_notifications_returned == dbOp = "none"

\* save_notifications of main.py returns; process_notifications, line 147.
\* The list the orchestrator holds is the very list that was passed to the
\* store, as the store left it.
PersistReturn ==
    /\ proc = "running"
    /\ pc = "save"
    /\ save_notifications_returned
    /\ notifications' = dbArgs
    /\ pc' = IF send_to_discord THEN "deliver" ELSE "idle"
    /\ UNCHANGED <<proc, signalled, cycles, next_run, configVars, sendArg,
                   send_to_discord, fetched, dropReqs, saveCalls, sent,
                   lastSend, sdnRet, fetchOutcome, dropOutcome,
                   everFetched, prevFetchOutcome, storeVars, upVars>>

\* DiscordNotifier.send_notification, lines 87-93: session.post is called
\* unless the message is empty
session_post_called(message) == message # <<>>

\* send_discord_notifications, lines 115-119: the value returned once the
\* loop has ended, by its last iteration or by an error
send_discord_notifications_return(r) == IF r = "raise" THEN "False" ELSE "True"

\* send_discord_notifications: one iteration of the loop of lines 112-114,
\* inside the try of lines 111-119
Deliver ==
    /\ proc = "running"
    /\ pc = "deliver"
    /\ \E resp \in Responses :
        LET i == Len(sent) + 1
            msg == render(notifications[i])
            r == send_notification(msg, resp)
            over == r = "raise" \/ i = Len(notifications)
        IN  /\ sent' = Append(sent, [message |-> msg, result |-> r])
            /\ lastSend' = [message |-> msg,
                            posted |-> session_post_called(msg),
                            resp |-> resp, result |-> r]
            /\ sdnRet' = IF over THEN send_discord_notifications_return(r)
                         ELSE sdnRet
            /\ pc' = IF over THEN "idle" ELSE "deliver"
    /\ UNCHANGED <<proc, signalled, cycles, next_run, configVars, sendArg,
                   send_to_discord, fetched, notifications, dropReqs,
                   saveCalls, fetchOutcome, dropOutcome, everFetched,
                   prevFetchOutcome, storeVars, upVars>>

\* faulty variant of signal_handler: the handler logs and returns
signal_handler_returns == "return"

\* signal_handler, lines 167-169: sys.exit(0) raises SystemExit in the main
\* thread, wherever it is
signal_handler == "SystemExit"

\* run_scheduler, lines 183-187, and main, line 200: SystemExit is caught
\* by none of the handlers and ends the process
process_after(exc) == IF exc = "return" THEN "running" ELSE "exited"

\* SIGINT or SIGTERM is delivered
Signal ==
    /\ proc = "running"
    /\ signalled' = TRUE
    /\ proc' = process_after(signal_handler)
    /\ UNCHANGED <<pc, cycles, next_run, configVars, cycleVars, everFetched,
                   prevFetchOutcome, storeVars, upVars>>

Init == \E cfg \in Configs, env \in Environs : InitWith(cfg, env, FALSE)

Next ==
    \/ Arrive
    \/ Construct
    \/ InitialRun
    \/ RunPending
    \/ Sleep
    \/ FetchFails
    \/ Fetch
    \/ Drop
    \/ (proc = "running" /\ SaveAttempt /\ UNCHANGED <<upVars, orchVars>>)
    \/ PersistReturn
    \/ Deliver
    \/ Signal

Spec == Init /\ [][Next]_vars

(* ------- ServiceSpec: process_notifications called directly ------------ *)

\* process_notifications(send_to_discord=a) called on a constructed service
CallProcessNotifications ==
    /\ proc = "running"
    /\ pc \in {"boot", "idle"}
    /\ cycles < MaxCalls
    /\ \E a \in {"none", "true", "false"} : StartCycle(a)
    /\ UNCHANGED next_run

ServiceInit == \E cfg \in Configs : InitWith(cfg, FullEnviron, TRUE)

ServiceNext ==
    \/ Arrive
    \/ CallProcessNotifications
    \/ FetchFails
    \/ Fetch
    \/ Drop
    \/ (SaveAttempt /\ UNCHANGED <<upVars, orchVars>>)
    \/ PersistReturn
    \/ Deliver

ServiceSpec == ServiceInit /\ [][ServiceNext]_vars

(* ---- DiscordSpec: the delivery methods called directly ---------------- *)

\* the messages handed to send_notification
Messages == {<<>>, <<"System started">>}
               \cup {render(p) : p \in Payloads(1..MaxNotifs)}

\* the batches handed to send_discord_notifications
DeliveryBatches == UNION {[1..n -> Payloads(1..MaxNotifs)] : n \in 0..MaxBatch}

\* discord_notifier.send_notification(message)
CallSendNotification ==
    /\ proc = "running"
    /\ pc \in {"boot", "idle"}
    /\ \E message \in Messages, resp \in Responses :
        LET r == send_notification(message, resp)
        IN  /\ sent' = <<[message |-> message, result |-> r]>>
            /\ lastSend' = [message |-> message,
                            posted |-> session_post_called(message),
                            resp |-> IF session_post_called(message)
                                     THEN resp ELSE NoSend.resp,
                            result |-> r]
    /\ notifications' = <<>>
    /\ sdnRet' = "none"
    /\ UNCHANGED <<pc, proc, signalled, cycles, next_run, configVars, sendArg,
                   send_to_discord, fetched, dropReqs, saveCalls,
                   fetchOutcome, dropOutcome, everFetched, prevFetchOutcome,
                   storeVars, upVars>>

\* send_discord_notifications(batch), lines 107-111: an empty batch returns
\* False at once, another one enters the loop
CallSendDiscordNotifications ==
    /\ proc = "running"
    /\ pc \in {"boot", "idle"}
    /\ \E batch \in DeliveryBatches :
        /\ notifications' = batch
        /\ pc' = IF batch = <<>> THEN "idle" ELSE "deliver"
        /\ sdnRet' = IF batch = <<>> THEN "False" ELSE "none"
    /\ sent' = <<>>
    /\ lastSend' = NoSend
    /\ UNCHANGED <<proc, signalled, cycles, next_run, configVars, sendArg,
                   send_to_discord, fetched, dropReqs, saveCalls,
                   fetchOutcome, dropOutcome, everFetched, prevFetchOutcome,
                   storeVars, upVars>>

DiscordInit == InitWith(DefaultConfig, FullEnviron, TRUE)

DiscordNext ==
    \/ CallSendNotification
    \/ CallSendDiscordNotifications
    \/ Deliver

DiscordSpec == DiscordInit /\ [][DiscordNext]_vars

(* =============================== claims ================================ *)

\* the documents the current (or last) store call has written
Written == {r \in coll : r.oid \in callInserted}
\* the collection as it was when the current (or last) save call started
Before == coll \ Written

\* C1 (as claimed): once a cycle is over, every notification the upstream
\* fetch has ever returned is stored at most once, and exactly once unless
\* it is still pending upstream (and so will be fetched again).
C1_StoredExactlyOnce ==
    pc = "idle" =>
        \A id \in everFetched :
            LET stored == Cardinality({r \in coll : r.question = id})
            IN  /\ stored <= 1
                /\ (\A n \in upstream : n.id # id) => stored = 1

\* C2: a cycle whose fetch failed ends at once with no persistence call and
\* no delivery call, process_notifications returns to the scheduler, the
\* scheduler goes on (it runs the job when due and sleeps otherwise), and
\* the cycle after a failed one persists and delivers what it fetched like
\* any other cycle.
C2_FetchFailureAbortsOnlyThisCycle ==
    /\ fetchOutcome = "fail" =>
            /\ pc = "idle"
            /\ notifications = <<>>
            /\ dropReqs = <<>>
            /\ saveCalls = 0
            /\ dbOp = "none"
            /\ sent = <<>>
    /\ (fetchOutcome = "fail" /\ proc = "running" /\ cycles < MaxCycles)
            => IF should_run(now, next_run)
               THEN ENABLED RunPending ELSE ENABLED Sleep
    /\ (prevFetchOutcome = "fail" /\ pc = "idle" /\ fetchOutcome = "ok"
            /\ dropOutcome # "raise")
            => /\ notifications = payloads(fetched)
               /\ saveCalls = 1
               /\ dbArgs = notifications
               /\ send_to_discord => sent # <<>>

\* C2 witness: a cycle that follows a failed fetch has fetched, persisted
\* and delivered.
C2_Witness ==
    /\ prevFetchOutcome = "fail"
    /\ pc = "idle"
    /\ fetchOutcome = "ok"
    /\ saveCalls = 1
    /\ ret.op = "save" /\ ret.val # <<>>
    /\ Len(sent) = Len(notifications)

\* C3 (as claimed): when the fetch returned notifications and the drop
\* step failed, by a non-OK response or by raising, the cycle still
\* persists the payloads of all fetched notifications and, with delivery
\* enabled, delivers them.
C3_DropFailureStillPersists ==
    (pc = "idle" /\ fetchOutcome = "ok" /\ dropOutcome \in {"notOK", "raise"})
        => /\ notifications = payloads(fetched)
           /\ saveCalls = 1
           /\ send_to_discord => sent # <<>>

\* C4: at most one drop request is issued per cycle, it is issued for every
\* non-empty fetch result, its ids are exactly the ids of the fetched
\* notifications, and after an OK answer none of them is pending upstream.
C4_DropCarriesExactlyFetchedIds ==
    /\ Len(dropReqs) <= 1
    /\ \A i \in 1..Len(dropReqs) :
           Range(dropReqs[i]) = {Str(fetched[j].id) : j \in 1..Len(fetched)}
    /\ (fetchOutcome = "ok" /\ pc # "drop") => Len(dropReqs) = 1
    /\ fetchOutcome # "ok" => dropReqs = <<>>
    /\ dropOutcome = "OK" => \A j \in 1..Len(fetched) : fetched[j] \notin upstream

\* C4 witness: a drop request for a fetch result of two notifications.
C4_Witness ==
    /\ Len(dropReqs) = 1
    /\ Len(fetched) = 2
    /\ dropOutcome = "OK"

\* C5 (as claimed): the list a save call returns holds exactly one id for
\* each document the call has inserted, and none for a rejected one.
C5_ReturnedIdsAreTheInsertedOnes ==
    (dbOp = "none" /\ ret.op = "save") =>
        /\ Range(ret.val) = {Str(o) : o \in callInserted}
        /\ Len(ret.val) = Cardinality(callInserted)

\* the batch positions whose notification_id was stored before the call
Duplicates(batch) ==
    {i \in 1..Len(batch) :
        \E r \in Before : r.notification_id = batch[i].notification_id}

\* C6 (as claimed): a save call whose batch holds a notification_id that
\* is already stored does not raise, adds no second document with that
\* notification_id, and (when no attempt hit a connection or server error)
\* writes a document for every other notification of the batch.
C6_DuplicateIsRejectedAlone ==
    (dbOp = "none" /\ ret.op = "save" /\ Duplicates(dbArgs) # {}) =>
        /\ ~ret.raised
        /\ \A i \in Duplicates(dbArgs) :
               \A r \in Written : r.notification_id # dbArgs[i].notification_id
        /\ (ret.how = "complete" /\ ret.attempts = 1) =>
               \A i \in (1..Len(dbArgs)) \ Duplicates(dbArgs) :
                   \E r \in Written :
                       /\ r.question = dbArgs[i].question
                       /\ dbArgs[i].notification_id # Absent =>
                              r.notification_id = dbArgs[i].notification_id

\* C7 (as claimed): no two stored documents have the same notification_id.
C7_NotificationIdIsUnique == NoDuplicates(coll)

\* C8: a store call that ended because a transient connectivity failure hit
\* every attempt has made max_retries attempts, has not raised, and has
\* returned 0 (delete) or the empty list (the other operations).
C8_ExhaustedRetriesReturnEmpty ==
    (dbOp = "none" /\ ret.how = "transient") =>
        /\ ret.attempts = max_retries
        /\ ~ret.raised
        /\ ret.op = "delete" => ret.val = 0
        /\ ret.op # "delete" => ret.val = <<>>

\* C8 witness: a save call has exhausted its retries after writing part of
\* the batch.
C8_Witness ==
    /\ dbOp = "none"
    /\ ret.op = "save"
    /\ ret.how = "transient"
    /\ ret.attempts = max_retries
    /\ callInserted # {}

\* every notification of the cycle's batch was stored before the save call
AllAlreadyStored ==
    /\ notifications # <<>>
    /\ \A i \in 1..Len(notifications) :
           /\ notifications[i].notification_id # Absent
           /\ \E r \in Before :
                  r.notification_id = notifications[i].notification_id

\* C9 (as claimed): in a cycle whose fetched notifications are all stored
\* already by notification_id, persistence reports no saved id and, with
\* delivery enabled, the sink is called once for each fetched payload.
C9_RefetchSavesNothingAndDelivers ==
    (pc = "idle" /\ saveCalls = 1 /\ AllAlreadyStored) =>
        /\ ret.val = <<>>
        /\ send_to_discord =>
               /\ Len(sent) = Len(notifications)
               /\ \A i \in 1..Len(sent) :
                      sent[i].message = render(notifications[i])

\* the cycle is over, fetch_notifications returned a batch in which no
\* payload has a notification_id, the save call succeeded at its first
\* attempt and no send_notification call failed
FreshBatchCycle ==
    /\ pc = "idle"
    /\ notifications # <<>>
    /\ \A i \in 1..Len(notifications) :
           notifications[i].notification_id = Absent
    /\ ret.op = "save" /\ ret.how = "complete" /\ ret.attempts = 1
    /\ \A i \in 1..Len(sent) : sent[i].result = "True"

\* n documents with pairwise distinct generated ids were stored
StoredDistinct ==
    /\ Cardinality(Written) = Len(notifications)
    /\ Len(ret.val) = Len(notifications)
    /\ NoDuplicates(Written)
    /\ \A r \in Written : r.notification_id[1] = "uuid"
    /\ {r.question : r \in Written} =
           {notifications[i].question : i \in 1..Len(notifications)}

\* one webhook call per notification, in the order of the batch
DeliveredOneByOne ==
    /\ Len(sent) = Len(notifications)
    /\ \A i \in 1..Len(sent) : sent[i].message = render(notifications[i])

\* C10 (as claimed): in a cycle that fetched n >= 1 notifications without
\* notification_id, with no persistence and no delivery failure, n
\* documents with distinct generated ids are stored and n webhook calls are
\* made.
C10_Original == FreshBatchCycle => (StoredDistinct /\ DeliveredOneByOne)

\* C10 (amended): the same, and the n webhook calls are made when delivery
\* is enabled.
C10_FreshBatchStoredAndDelivered ==
    FreshBatchCycle =>
        /\ StoredDistinct
        /\ send_to_discord => DeliveredOneByOne

\* C10 witness: a cycle has stored and delivered two notifications that
\* came without notification_id.
C10_Witness ==
    /\ FreshBatchCycle
    /\ send_to_discord
    /\ Len(notifications) = 2
    /\ Len(sent) = 2

\* the save call of the cycle is over and has failed: its retries were
\* exhausted or another error ended it, and it reported nothing saved
PersistenceFailed ==
    /\ saveCalls = 1
    /\ dbOp = "none"
    /\ ret.op = "save"
    /\ ret.how # "complete"
    /\ ret.val = <<>>

\* C11 (as claimed): a cycle whose persistence of a non-empty batch failed
\* still reaches the delivery step and, with delivery enabled, makes a
\* delivery call for every notification of the fetched batch.
C11_FailedPersistenceStillDeliversAll ==
    (pc = "idle" /\ notifications # <<>> /\ PersistenceFailed) =>
        /\ notifications = payloads(fetched)
        /\ send_to_discord => DeliveredOneByOne

\* C12 (as claimed): when the process has exited on a signal, the cycle
\* that was in progress has run to its end: what it fetched was handed to
\* persistence and, with delivery enabled, to delivery.
C12_SignalledCycleRunsToCompletion ==
    (proc = "exited" /\ fetchOutcome = "ok" /\ dropOutcome # "raise") =>
        /\ pc = "idle"
        /\ saveCalls = 1
        /\ dbOp = "none"
        /\ send_to_discord => sent # <<>>

\* C13: once the signal handler has been invoked the process has exited,
\* and from then on no cycle starts and no step of a cycle is taken.
C13_NoCycleAfterSignal ==
    /\ [](signalled => proc = "exited")
    /\ [][signalled => UNCHANGED <<pc, cycles, fetched, dropReqs, saveCalls,
                                   sent, coll, dbOp>>]_vars

\* C13 witness: the process has exited on a signal between two cycles,
\* with a notification pending upstream and a cycle left to run.
C13_Witness ==
    /\ signalled
    /\ proc = "exited"
    /\ pc = "idle"
    /\ cycles = 1
    /\ upstream # {}

\* send_discord_notifications, lines 117-118: the only log entry about a
\* failure is written when an error leaves the loop
delivery_errors_logged(s) == {i \in 1..Len(s) : s[i].result = "raise"}

\* C14 (as claimed): when send_discord_notifications has returned, a
\* delivery call was made for every notification of the batch, whatever
\* the earlier calls returned or raised, and every failed call was logged.
C14_FailedDeliveryDoesNotStopLaterOnes ==
    (sdnRet # "none" /\ notifications # <<>>) =>
        /\ Len(sent) = Len(notifications)
        /\ \A i \in 1..Len(sent) :
               sent[i].result # "True" => i \in delivery_errors_logged(sent)

\* C15 (as claimed): send_discord_notifications returns True exactly when
\* the batch is not empty and every send_notification call of the batch
\* was made and returned True.
C15_ReturnsTrueIffAllAccepted ==
    sdnRet # "none" =>
        (sdnRet = "True" <=>
            /\ notifications # <<>>
            /\ Len(sent) = Len(notifications)
            /\ \A i \in 1..Len(sent) : sent[i].result = "True")

\* C16: send_notification with an empty message returns False and makes
\* no POST; with another message it makes a POST, returns True only when
\* the final status is 200 or 204 and returns False for any other status.
C16_EmptyMessageAndAcceptedStatus ==
    lastSend.result # "none" =>
        /\ lastSend.message = <<>> =>
               (lastSend.result = "False" /\ ~lastSend.posted)
        /\ lastSend.message # <<>> => lastSend.posted
        /\ lastSend.result = "True" =>
               /\ lastSend.posted
               /\ lastSend.resp.kind = "status"
               /\ lastSend.resp.code \in {200, 204}
        /\ (lastSend.posted /\ lastSend.resp.kind = "status"
               /\ lastSend.resp.code \notin {200, 204}) =>
               lastSend.result = "False"

\* C16 witness: send_notification("") has returned False.
C16_Witness ==
    /\ lastSend.message = <<>>
    /\ lastSend.result = "False"
    /\ sent # <<>>

\* C17: a webhook call that ends with a timeout or another transport
\* failure makes send_notification return False; the error does not
\* escape.
C17_TransportFailureReturnsFalse ==
    (lastSend.posted /\ lastSend.resp.kind \in {"Timeout", "RequestException"})
        => lastSend.result = "False"

\* C17 witness: a delivery call inside a batch has ended with a transport
\* failure other than a timeout, and the loop has gone on.
C17_Witness ==
    /\ lastSend.resp.kind = "RequestException"
    /\ lastSend.result = "False"
    /\ Len(notifications) = 2
    /\ Len(sent) = 1
    /\ pc = "deliver"

\* delivery is enabled for the cycle: the explicit argument when given,
\* else the configuration flag, else yes
DeliveryEnabled ==
    IF sendArg = "true" THEN TRUE
    ELSE IF sendArg = "false" THEN FALSE
    ELSE config_send # "false"

\* C18: the sink is called only in a cycle for which delivery is enabled,
\* a finished cycle with a batch has called the store once with that batch
\* whatever the flag, and has called the sink when delivery is enabled.
C18_DeliveryOnlyWhenEnabled ==
    /\ sent # <<>> => DeliveryEnabled
    /\ (pc = "idle" /\ notifications # <<>>) =>
           /\ saveCalls = 1
           /\ dbArgs = notifications
           /\ DeliveryEnabled => sent # <<>>

\* C18 witness: process_notifications(send_to_discord=False) on a service
\* whose configuration enables delivery has stored a batch and sent nothing.
C18_Witness ==
    /\ sendArg = "false"
    /\ config_send = "true"
    /\ pc = "idle"
    /\ ret.op = "save" /\ ret.val # <<>>
    /\ coll # {}
    /\ sent = <<>>

\* the configured interval, 60 seconds when the key is missing
Interval == IF config_freq = <<>> THEN 60 ELSE config_freq[1]

\* C19: the first cycle starts when run_scheduler starts, with no interval
\* elapsed, and the k-th later cycle starts no earlier than k intervals
\* after that.
C19_FirstCycleAtOnceLaterOnesOnTimer ==
    /\ pc = "boot" => (now = 0 /\ (proc = "running" => ENABLED InitialRun))
    /\ (cycles = 1 /\ pc # "idle") => now = 0
    /\ cycles >= 1 => now >= (cycles - 1) * Interval
    /\ (cycles >= 1 /\ pc = "idle" /\ now < cycles * Interval) =>
           ~ENABLED RunPending

\* C19 witness: the second cycle is running, one default interval after
\* the first.
C19_Witness ==
    /\ cycles = 2
    /\ pc = "fetch"
    /\ config_freq = <<>>
    /\ now = 60

\* a required credential is missing or empty
CredentialMissing ==
    \/ environ.PRIVATE_KEY \in {None, ""}
    \/ environ.DISCORD_WEBHOOK_URL \in {None, ""}

\* a leaf ${VAR} without default names a variable that is not set
RequiredVariableUnset ==
    \E k \in DOMAIN config_yaml :
        ~config_yaml[k].has_default /\ environ[config_yaml[k].var] = None

\* C20: with a missing credential or an unset required variable the
\* service is never constructed and no cycle runs: no fetch, no drop
\* request, no store call and no delivery call is made.
C20_BadConfigurationNeverRuns ==
    (CredentialMissing \/ RequiredVariableUnset) =>
        /\ proc \in {"starting", "failed"}
        /\ pc = "new"
        /\ cycles = 0
        /\ fetchOutcome = "none"
        /\ dropReqs = <<>>
        /\ saveCalls = 0 /\ dbOp = "none" /\ coll = {}
        /\ sent = <<>>

\* C20 witness: construction has failed for an unset ${MONGO_URL} alone,
\* with a notification pending upstream.
C20_Witness ==
    /\ proc = "failed"
    /\ environ.MONGO_URL = None
    /\ ~CredentialMissing
    /\ upstream # {}

\* the stored records created between the bounds of the date-range call
InRange ==
    {r \in coll : dbArgs.start_date <= r.created_at
                  /\ r.created_at <= dbArgs.end_date}

\* the list returned holds every record of S once, newest first
ReturnsNewestFirst(S) ==
    /\ Len(ret.val) = Cardinality(S)
    /\ {[ret.val[i] EXCEPT !.oid = @[2]] : i \in 1..Len(ret.val)} = S
    /\ \A i \in 1..(Len(ret.val) - 1) :
           ret.val[i].created_at >= ret.val[i + 1].created_at

\* C21 (as claimed): every get_notifications_by_date_range(start, end) call
\* returns exactly the stored records with start <= created_at <= end,
\* newest first, and no attempt of the call changes the store.
C21_Original ==
    /\ []((dbOp = "none" /\ ret.op = "get_by_date") =>
              ReturnsNewestFirst(InRange))
    /\ [][dbOp = "get_by_date" => coll' = coll]_vars

\* C21 (amended): a get_notifications_by_date_range(start, end) call that
\* does not fail returns exactly the stored records with
\* start <= created_at <= end, newest first; a call that fails (a transient
\* error on all three attempts, or any other error) returns an empty list
\* without raising; no attempt of the call changes the store.
C21_DateRangeReturnsRecordsInRange ==
    /\ []((dbOp = "none" /\ ret.op = "get_by_date") =>
              IF ret.how = "complete"
              THEN ReturnsNewestFirst(InRange)
              ELSE ret.val = <<>> /\ ~ret.raised)
    /\ [][dbOp = "get_by_date" => coll' = coll]_vars

\* a retried call has returned two of the three stored records
C21_Witness ==
    /\ dbOp = "none"
    /\ ret.op = "get_by_date"
    /\ ret.how = "complete"
    /\ ret.attempts = 2
    /\ Len(ret.val) = 2
    /\ Cardinality(coll) = 3

\* C22 (as claimed, for a call that did not fail): when
\* delete_old_notifications(days) returns, the records the call has removed
\* were all created strictly earlier than now minus days, none of them is
\* in the store, and the value returned is the number of records removed.
C22_DeleteReturnsNumberRemoved ==
    (dbOp = "none" /\ ret.op = "delete" /\ ret.how = "complete") =>
        /\ \A r \in callRemoved : r.created_at < now - dbArgs.days_old
        /\ callRemoved \cap coll = {}
        /\ ret.val = Cardinality(callRemoved)

\* C23: a stored record never changes and leaves the store only through
\* delete_old_notifications: over every step of save, read and purge
\* calls, a record of the store is still there with the same fields,
\* unless the step is an attempt of delete_old_notifications that removed
\* it altogether.
C23_StoredRecordsAreImmutable ==
    [][\A r \in coll :
          \/ r \in coll'
          \/ /\ dbOp = "delete"
             /\ \A q \in coll' : q.oid # r.oid]_vars

\* a purge has removed a record and left another one, after a later save
\* of a notification with the same notification_id was attempted
C23_Witness ==
    /\ dbOp = "none"
    /\ ret.op = "delete"
    /\ callRemoved # {}
    /\ coll # {}
    /\ \E r \in coll, q \in callRemoved :
           r.notification_id = q.notification_id

\* C24: whatever the connection manager has gone through (never connected,
\* connected, connection closed, connection attempts failed), a call of
\* get_connection_stats returns without raising, with a status among
\* 'connected', 'disconnected' and 'error', and the status is 'disconnected'
\* exactly when no client object was held.
C24_StatsStatusAlwaysValid ==
    stats # NoStats =>
        /\ ~stats.raised
        /\ stats.status \in {"connected", "disconnected", "error"}
        /\ (stats.status = "disconnected") <=> ~stats.held

\* the statistics were asked for after a get_client call whose five
\* connection attempts all failed, and the server was still unreachable
C24_Witness ==
    /\ connRet = "raised"
    /\ connection_attempts = max_connection_attempts
    /\ stats.held
    /\ stats.status = "error"

\* C25: a call of _retry_database_operation invokes the wrapped operation
\* at most 3 times; a further invocation follows only an attempt that ended
\* with a transient connectivity error, after a sleep of 1 second before
\* the second attempt and of 2 seconds before the third; an attempt that
\* ends with any other error, or completes, is the last of its call.
C25_AtMostThreeAttemptsWithBackoff ==
    /\ Len(tries) <= 3
    /\ \A i \in 1..Len(tries) :
           IF i < Len(tries) \/ dbOp # "none"
           THEN /\ tries[i].out = "transient"
                /\ tries[i].slept = (IF i = 1 THEN 1 ELSE 2)
           ELSE tries[i].slept = 0
    /\ dbOp # "none" => Len(tries) = attempt /\ attempt < 3
    /\ (dbOp = "none" /\ ret.op \in {"save", "get_all", "get_by_date",
                                      "delete"})
           => Len(tries) = ret.attempts

\* a call has ended with an error that is not transient on its second
\* attempt, after one sleep of 1 second
C25_Witness ==
    /\ dbOp = "none"
    /\ Len(tries) = 2
    /\ tries[1] = [out |-> "transient", slept |-> 1]
    /\ tries[2] = [out |-> "other", slept |-> 0]

\* C26: no drop request carries an empty id list, and a cycle whose fetch
\* returned no notification goes through no drop step at all:
\* fetch_and_drop_notifications issues no request and returns an empty
\* list, which ends the cycle.
C26_NoDropRequestWithoutIds ==
    /\ \A i \in 1..Len(dropReqs) : dropReqs[i] # <<>>
    /\ fetchOutcome = "empty" =>
           /\ fetched = <<>>
           /\ dropReqs = <<>>
           /\ dropOutcome = "none"
           /\ notifications = <<>>
           /\ saveCalls = 0
           /\ pc = "idle"

\* the second cycle found nothing to fetch, after a first cycle that had
\* fetched and stored a notification
C26_Witness ==
    /\ cycles = 2
    /\ fetchOutcome = "empty"
    /\ pc = "idle"
    /\ coll # {}

\* C27: within a cycle the calls are made in the order fetch, acknowledge,
\* persist, deliver: the store is called at most once, only when the fetch
\* has returned at least one item and the one drop request has been
\* answered; a store call is in progress only at the persistence step, and
\* a delivery call is made only once the store call of the cycle has
\* returned.
C27_FetchAcknowledgePersistDeliver ==
    /\ saveCalls <= 1
    /\ Len(dropReqs) <= 1
    /\ dropReqs # <<>> => fetchOutcome = "ok"
    /\ saveCalls = 1 =>
           /\ fetchOutcome = "ok"
           /\ fetched # <<>>
           /\ Len(dropReqs) = 1
           /\ dropOutcome \in {"OK", "notOK"}
    /\ dbOp # "none" => (pc = "save" /\ saveCalls = 1)
    /\ (pc = "deliver" \/ sent # <<>>) =>
           /\ saveCalls = 1
           /\ dbOp = "none"
           /\ ret.op = "save"

\* a cycle has delivered its two notifications after a drop request
\* answered with something else than "OK" and a store call that failed
C27_Witness ==
    /\ pc = "idle"
    /\ Len(sent) = 2
    /\ dropOutcome = "notOK"
    /\ saveCalls = 1
    /\ ret.how = "other"

\* C28 (as claimed): a notification fetched in this cycle that the upstream
\* no longer holds, that is, one the cycle's drop request has removed, has
\* been handed to the persistence store in this cycle, whatever the client
\* saw of the drop call and whenever a termination signal arrives.
C28_DroppedNotificationsReachTheStore ==
    \A j \in 1..Len(fetched) :
        fetched[j] \notin upstream =>
            /\ saveCalls = 1
            /\ fetched[j].payload \in Range(dbArgs)

\* C29 (as claimed): a save_notifications call, in progress or returned,
\* has written at most one record per notification of its input, also
\* when the insert was retried after a transient failure.
C29_AtMostOneRecordPerInput ==
    (dbOp = "save" \/ ret.op = "save") =>
        Cardinality(Written) <= Len(dbArgs)

\* C30: the store leaves the notifications passed to it as they were: the
\* list the store call of a cycle was given is, during and after the call,
\* the list of payloads the fetch returned, and the messages delivered are
\* the renderings of these payloads, in the same order.
C30_DeliveredBatchIsFetchedBatch ==
    /\ saveCalls = 1 =>
           /\ dbArgs = payloads(fetched)
           /\ notifications = payloads(fetched)
    /\ Len(sent) <= Len(fetched)
    /\ \A i \in 1..Len(sent) : sent[i].message = render(fetched[i].payload)

\* two notifications, the first without notification_id, were stored,
\* each with a notification_id, and then delivered
C30_Witness ==
    /\ pc = "idle"
    /\ Len(fetched) = 2
    /\ fetched[1].payload.notification_id = Absent
    /\ ret.how = "complete"
    /\ Cardinality(Written) = 2
    /\ \A r \in Written : r.notification_id # Absent
    /\ Len(sent) = 2

\* C31 (as claimed): at most one MongoClient is open at any time, so that
\* every client created earlier has been closed whenever get_client holds
\* a new one (after a failed ping, after a failed connection attempt or
\* with force_reconnect); a get_client call makes at most 5 connection
\* attempts.
C31_AtMostOneOpenClient ==
    /\ Cardinality(openClients) <= 1
    /\ client # NoClient => openClients = {client}
    /\ connAttempt < max_connection_attempts

====
